---- MODULE Spec2Model ----
(***************************************************************************)
(* Model of scripts/generate_synthetic_data.py: the synthetic panel        *)
(* generator of the cash-drag nudges case study.                           *)
(*                                                                         *)
(* Numbers.  Probabilities and rates are kept in permille (0.03 -> 30),    *)
(* balances in dollars, invest_amount in dollar-permille                   *)
(* (balance * allocation_rate).  A random generator is a record            *)
(* [seed, pos]: its k-th variate is a fixed function of the seed (Word);   *)
(* every call rng.f(size=n) reads n consecutive variates.  A variate has   *)
(* two levels: 0 (below every positive threshold the code compares it      *)
(* with) and 1 (above all of them).                                        *)
(*                                                                         *)
(* Columns that hold real-valued covariates which no state update reads    *)
(* (age_band, tenure_band, risk_tolerance, advisor_flag,                   *)
(* preferred_channel, account_fe, market_return, seasonality_index,        *)
(* engagement_obs, market_return_obs) are not carried; the draws that      *)
(* produce them still advance the generator.                               *)
(***************************************************************************)
EXTENDS Integers, Sequences, FiniteSets, TLC

VARIABLES
    cfg,                    \* Config: seed, n_accounts, n_months (main, l.330)
    pc,                     \* position of main()
    rng,                    \* main's generator (l.331)
    accounts,               \* accounts table (l.333)
    campaigns,              \* campaign table (l.334)
    maps,                   \* start / end / wave lookup maps (l.334)
    camp,                   \* locals of build_campaigns: rows, wave_id, maps
    ci,                     \* build_campaigns: number of loop iterations done
    panel_rng,              \* generate_panel's generator (l.138)
    m,                      \* generate_panel: loop variable (l.178)
    invested_status,        \* l.172
    account_closed,         \* l.173
    first_exposure_month,   \* l.174
    rows,                   \* generate_panel: list of month frames (l.176)
    panel,                  \* panel table (l.335)
    did_ready,              \* DiD-ready table (l.336)
    written,                \* the tables written to outdir (l.341-344)
    returned,               \* generation functions that have returned normally
    run,                    \* 1 for the first run of the program, 2 for a repeat
    first_out               \* what the first run wrote

vars == <<cfg, pc, rng, accounts, campaigns, maps, camp, ci, panel_rng, m,
          invested_status, account_closed, first_exposure_month, rows, panel,
          did_ready, written, returned, run, first_out>>

(***************************************************************************)
(* Bounds of the model.                                                    *)
(***************************************************************************)
StreamLen   == 14    \* a generator's variate sequence is built from this many bits
MaxSeed     == 511   \* --seed ranges over 0..MaxSeed
MaxAccounts == 2     \* --accounts ranges over -1..MaxAccounts
MaxMonths   == 6     \* --months ranges over -1..MaxMonths
MaxHorizon  == 28    \* n_months of the campaign-scheduler specification

Min(a, b) == IF a <= b THEN a ELSE b
Max(a, b) == IF a >= b THEN a ELSE b

RECURSIVE Pow2(_)
Pow2(k) == IF k = 0 THEN 1 ELSE 2 * Pow2(k - 1)

None == <<>>          \* a table / frame that has not been produced

(***************************************************************************)
(* Config (l.36-47).                                                       *)
(***************************************************************************)
rollover_start          == 1
rollover_end            == 12
close_rate              == 1
contam_rate             == 30
missing_engagement_rate == 50
missing_market_rate     == 20
label_noise_rate        == 10

Config(seed, n_accounts, n_months) ==
    [seed |-> seed, n_accounts |-> n_accounts, n_months |-> n_months]

(***************************************************************************)
(* np.random.default_rng(seed) and the draws of a Generator.               *)
(***************************************************************************)
default_rng(seed) == [seed |-> seed, pos |-> 0]

\* the number of distinct variate sequences, and the weight of each place
Modulus == Pow2(StreamLen)
Weight  == [k \in 0..(StreamLen - 1) |-> Pow2(k)]

\* the pos-th variate of the generator seeded with seed: 0 or 1.  The seed
\* is mixed first, so that seed and seed + 1 give unrelated sequences, and
\* the sequence shifts by three places each time round, so that two calls a
\* whole period apart are not tied to each other.
Word(seed, pos) ==
    (((seed * 173 + 1) % Modulus)
        \div Weight[(pos + 3 * (pos \div StreamLen)) % StreamLen]) % 2

\* the variate of account a (1-based) in the call-th size-n call after g.pos
Variate(g, call, n, a) == Word(g.seed, g.pos + call * n + (a - 1))

\* rng.random(): a uniform variate in [0,1), in permille
random(w) == IF w = 0 THEN 0 ELSE 999

\* rng.integers(low, high): low <= result < high
integers(w, low, high) == low + (w % (high - low))

\* rng.choice(list), uniform
choice(w, list) == list[1 + (w % Len(list))]

\* rng.binomial(1, p): one Bernoulli trial
binomial(w, p) == IF random(w) < p THEN 1 ELSE 0

\* rng.lognormal(10.3, 0.8): strictly positive, either tail
lognormal(w) == IF w = 0 THEN 500 ELSE 900000

\* rng.beta(2, 5) and rng.beta(5, 2): strictly inside (0,1), in permille
beta25(w) == IF w = 0 THEN 100 ELSE 600
beta52(w) == IF w = 0 THEN 250 ELSE 750

clip(x, lo, hi) == Max(lo, Min(x, hi))

(***************************************************************************)
(* build_accounts (l.50-90).                                               *)
(***************************************************************************)
regions  == <<"North", "South", "East", "West">>
channels == <<"email", "sms", "inapp">>

\* the row of account a; the call numbers are the order of the draws
AccountRow(g, c, a) ==
    [account_id       |-> a,
     rollover_month   |-> integers(Variate(g, 0, c.n_accounts, a),
                                   rollover_start, rollover_end + 1),
     baseline_balance |-> clip(lognormal(Variate(g, 1, c.n_accounts, a)),
                               1000, 500000),
     digital_engagement_score |-> beta25(Variate(g, 5, c.n_accounts, a)),
     region            |-> choice(Variate(g, 7, c.n_accounts, a), regions),
     contactable_email |-> binomial(Variate(g, 8, c.n_accounts, a), 850),
     contactable_sms   |-> binomial(Variate(g, 9, c.n_accounts, a), 550)]

\* a negative size makes the first draw raise ValueError (l.52)
build_accounts_raises(c) == c.n_accounts < 0

build_accounts(g, c) == [a \in 1..c.n_accounts |-> AccountRow(g, c, a)]

(***************************************************************************)
(* build_campaigns (l.93-134).                                             *)
(***************************************************************************)
region_start      == [North |-> 4, South |-> 7, East |-> 10, West |-> 13]
channel_offset    == [email |-> 0, sms |-> 1, inapp |-> 2]
channel_intensity == [email |-> 1, sms |-> 2, inapp |-> 1]

EmptyMaps == [email |-> <<>>, sms |-> <<>>, inapp |-> <<>>]

\* the locals before the loop (l.99-103)
CampInit == [rows |-> <<>>, wave_id |-> 1,
             start |-> EmptyMaps, end |-> EmptyMaps, wave |-> EmptyMaps]

\* an alternative that starts every channel of a region in the same month
wave_start_of_region(region, channel) == region_start[region]

wave_start(region, channel) == region_start[region] + channel_offset[channel]

\* an alternative without the cap at the horizon
wave_end_uncapped(region, channel, c) == wave_start(region, channel) + 12

wave_end(region, channel, c) == Min(wave_start(region, channel) + 12, c.n_months)

\* one iteration of the loop body (l.107-126)
CampaignIter(s, region, channel, c) ==
    [rows |-> Append(s.rows,
                [nudge_wave_id |-> s.wave_id,
                 channel       |-> channel,
                 region        |-> region,
                 start_month   |-> wave_start(region, channel),
                 end_month     |-> wave_end(region, channel, c),
                 eligibility_rule |-> "months_since_rollover in [1,6] and not invested",
                 intensity     |-> channel_intensity[channel]]),
     wave_id |-> s.wave_id + 1,
     start |-> [s.start EXCEPT ![channel] =
                   (region :> wave_start(region, channel)) @@ @],
     end   |-> [s.end EXCEPT ![channel] =
                   (region :> wave_end(region, channel, c)) @@ @],
     wave  |-> [s.wave EXCEPT ![channel] = (region :> s.wave_id) @@ @]]

NIter == Len(regions) * Len(channels)

\* the region and the channel of the i-th iteration (0-based) of
\* "for region in regions: for channel in [...]" (l.105-106)
IterRegion(i)  == regions[1 + (i \div Len(channels))]
IterChannel(i) == channels[1 + (i % Len(channels))]

RECURSIVE CampLoop(_, _, _)
CampLoop(s, i, c) ==
    IF i = NIter THEN s
    ELSE CampLoop(CampaignIter(s, IterRegion(i), IterChannel(i), c), i + 1, c)

\* the locals at the return (l.128-134)
build_campaigns(c) == CampLoop(CampInit, 0, c)

MapsOf(s) == [start |-> s.start, end |-> s.end, wave |-> s.wave]

(***************************************************************************)
(* generate_panel (l.137-301): the per-account values of month m.  Every   *)
(* operator reads the state carried from the end of month m-1.             *)
(***************************************************************************)
NaN == -999           \* np.nan, the missing event_time (l.258)

\* logistic() (l.32-33, l.227) maps into the open interval (0,1)
logistic_value == 500

B2I(b) == IF b THEN 1 ELSE 0          \* .astype(int)

n == Len(accounts)                    \* l.139

\* an alternative that seeds the generator differently in every run
PanelSeedOfRun(c) == c.seed + run

\* the seed of generate_panel's generator (l.138)
PanelSeed(c) == c.seed + 1

\* the calls on the generator per month, in order: 0-2 assign (email, sms,
\* inapp), 3-5 open, 6-8 contamination, 9 invest, 10 label noise,
\* 11 allocation, 12 closure, 13 missing engagement, 14 missing market
CallsPerMonth == 15

ChannelIndex(ch) == CASE ch = "email" -> 0 [] ch = "sms" -> 1 [] ch = "inapp" -> 2

\* rng.random(n)[a] of the call-th call of this month
u(call, a) == random(Variate(panel_rng, call, n, a))

msr(a) == m - accounts[a].rollover_month                             \* l.179

active(a) == msr(a) >= 0                                             \* l.180

\* an alternative with the "not yet invested" conjunct left out
eligible_ignores_invested(a) ==
    active(a) /\ msr(a) >= 1 /\ msr(a) <= 6 /\ ~account_closed[a]

\* an alternative whose window opens in the rollover month itself
eligible_from_rollover(a) ==
    /\ active(a) /\ msr(a) >= 0 /\ msr(a) <= 6
    /\ ~invested_status[a] /\ ~account_closed[a]

\* an alternative with the "not closed" conjunct left out
eligible_ignores_closed(a) ==
    active(a) /\ msr(a) >= 1 /\ msr(a) <= 6 /\ ~invested_status[a]

eligible(a) ==                                                       \* l.181
    /\ active(a) /\ msr(a) >= 1 /\ msr(a) <= 6
    /\ ~invested_status[a] /\ ~account_closed[a]

p_assign(a) ==                                                       \* l.183
    50 + (100 * accounts[a].digital_engagement_score) \div 1000
       + 50 * B2I(accounts[a].baseline_balance > 50000)

\* email_active, sms_active, inapp_active (l.153-159, l.185-187)
channel_active(ch, a) ==
    /\ m >= maps.start[ch][accounts[a].region]
    /\ m <= maps.end[ch][accounts[a].region]

\* an alternative that treats every channel like inapp
contactable_always(ch, a) == TRUE

\* contactable_email, contactable_sms (l.147-148); inapp needs none (l.191)
contactable(ch, a) ==
    CASE ch = "email" -> accounts[a].contactable_email = 1
      [] ch = "sms"   -> accounts[a].contactable_sms = 1
      [] ch = "inapp" -> TRUE

\* email_assign, sms_assign, inapp_assign (l.189-191); el is eligible[a]
assign(ch, a, el) ==
    /\ el /\ contactable(ch, a) /\ channel_active(ch, a)
    /\ u(ChannelIndex(ch), a) < p_assign(a)

\* email_open_prob, sms_open_prob, inapp_open_prob (l.193-195)
open_prob(ch, a) ==
    CASE ch = "email" ->
           clip(350 + (250 * accounts[a].digital_engagement_score) \div 1000, 0, 950)
      [] ch = "sms" ->
           clip(550 + (200 * accounts[a].digital_engagement_score) \div 1000, 0, 980)
      [] ch = "inapp" ->
           clip(450 + (300 * accounts[a].digital_engagement_score) \div 1000, 0, 980)

\* an alternative whose contamination reaches accounts that are not eligible
exposure_contaminates_any(ch, a, el, assigned) ==
    \/ assigned /\ u(3 + ChannelIndex(ch), a) < open_prob(ch, a)
    \/ ~assigned /\ u(6 + ChannelIndex(ch), a) < contam_rate

\* exposure_email, exposure_sms, exposure_inapp after contamination
\* (l.197-204); assigned is the channel's assignment of the account
exposure(ch, a, el, assigned) ==
    \/ assigned /\ u(3 + ChannelIndex(ch), a) < open_prob(ch, a)
    \/ el /\ ~assigned /\ u(6 + ChannelIndex(ch), a) < contam_rate

n_exposed(x_email, x_sms, x_inapp) ==                                \* l.206
    B2I(x_email) + B2I(x_sms) + B2I(x_inapp)

\* an alternative that leaves the probability of inactive accounts standing
p_ignores_active(a) ==
    logistic_value * B2I(~invested_status[a]) * B2I(~account_closed[a])

\* an alternative that leaves the probability of invested accounts standing
p_ignores_invested(a) ==
    logistic_value * B2I(active(a)) * B2I(~account_closed[a])

\* p = logistic(...) * active * ~invested_status * ~account_closed (l.227-228)
p(a) == logistic_value * B2I(active(a)) * B2I(~invested_status[a])
                       * B2I(~account_closed[a])

invest_true(a) == u(9, a) < p(a)                                     \* l.230

noise_mask(a) == u(10, a) < label_noise_rate                         \* l.234

\* l.233-235; it is invest_true[a]
invested_flag(a, it) == IF noise_mask(a) THEN ~it ELSE it

allocation_rate(a) == beta52(Variate(panel_rng, 11, n, a))           \* l.237

\* an alternative that pays out on the observed flag
invest_amount_of_flag(a, it) ==
    IF invested_flag(a, it)
    THEN accounts[a].baseline_balance * allocation_rate(a) ELSE 0

invest_amount(a, it) ==                                              \* l.238
    IF it THEN accounts[a].baseline_balance * allocation_rate(a) ELSE 0

\* l.241; k is n_exposed[a]
newly_exposed(a, k) == k > 0 /\ first_exposure_month[a] < 0

\* an alternative that records the latest exposure
first_exposure_latest(a, k) == IF k > 0 THEN m ELSE first_exposure_month[a]

\* first_exposure_month[a] after l.242
first_exposure_upd(a, k) ==
    IF newly_exposed(a, k) THEN m ELSE first_exposure_month[a]

\* an alternative that overwrites the status with this month's outcome
invested_status_overwritten(a, it) == it

\* an alternative that books the observed flag into the status
invested_status_of_flag(a, it) == invested_status[a] \/ invested_flag(a, it)

\* invested_status[a] after l.245
invested_status_upd(a, it) == invested_status[a] \/ it

closed_now(a) == ~account_closed[a] /\ u(12, a) < close_rate         \* l.248

\* an alternative that keeps only this month's closure draw
account_closed_overwritten(a) == u(12, a) < close_rate

\* account_closed[a] after l.249
account_closed_upd(a) == account_closed[a] \/ closed_now(a)

missing_engagement(a) == u(13, a) < missing_engagement_rate          \* l.252

missing_market(a) == u(14, a) < missing_market_rate                  \* l.255

\* an alternative that counts the month of the first exposure as month 1
event_time_from_one(f) == IF f >= 0 THEN m - f + 1 ELSE NaN

\* l.258; f is first_exposure_month[a] after l.242
event_time(f) == IF f >= 0 THEN m - f ELSE NaN

treated(f) == B2I(f >= 0)                                            \* l.259

\* an alternative that starts the post period the month after the exposure
post_after_exposure(f) == B2I(f >= 0 /\ m > f)

post(f) == B2I(f >= 0 /\ m >= f)                                     \* l.260

\* one pass of the loop body for account a (l.179-296): the carried state
\* after the updates, and the row of the account in month_df
month_calc(a) ==
    LET el      == eligible(a)
        a_email == assign("email", a, el)
        a_sms   == assign("sms", a, el)
        a_inapp == assign("inapp", a, el)
        x_email == exposure("email", a, el, a_email)
        x_sms   == exposure("sms", a, el, a_sms)
        x_inapp == exposure("inapp", a, el, a_inapp)
        k       == n_exposed(x_email, x_sms, x_inapp)
        it      == invest_true(a)
        f       == first_exposure_upd(a, k)
        inv     == invested_status_upd(a, it)
        closed  == account_closed_upd(a)
    IN
    [first_exposure_month |-> f,
     invested_status      |-> inv,
     account_closed       |-> closed,
     row |->
       [account_id            |-> accounts[a].account_id,
        calendar_month        |-> m,
        months_since_rollover |-> msr(a),
        active_flag           |-> B2I(active(a)),
        eligible_flag         |-> B2I(el),
        nudge_email           |-> B2I(a_email),
        nudge_sms             |-> B2I(a_sms),
        nudge_inapp           |-> B2I(a_inapp),
        exposure_email        |-> B2I(x_email),
        exposure_sms          |-> B2I(x_sms),
        exposure_inapp        |-> B2I(x_inapp),
        email_wave_id         |-> maps.wave["email"][accounts[a].region],
        sms_wave_id           |-> maps.wave["sms"][accounts[a].region],
        inapp_wave_id         |-> maps.wave["inapp"][accounts[a].region],
        treatment_any         |-> B2I(k > 0),
        treatment_intensity   |-> k,
        first_exposure_month  |-> f,
        event_time            |-> event_time(f),
        treated               |-> treated(f),
        post                  |-> post(f),
        invested_true         |-> B2I(it),
        invested_flag         |-> B2I(invested_flag(a, it)),
        invested_status       |-> B2I(inv),
        invest_amount         |-> invest_amount(a, it),
        account_closed        |-> B2I(closed),
        missing_engagement    |-> B2I(missing_engagement(a)),
        missing_market_return |-> B2I(missing_market(a))]]

\* an alternative loop that stops one month early
loop_stops_early == m < cfg.n_months

\* "for m in range(1, cfg.n_months + 1)" has a next month (l.178)
loop_continues == m <= cfg.n_months

\* pd.concat(rows, ignore_index=True) (l.300)
RECURSIVE concat(_)
concat(frames) ==
    IF frames = <<>> THEN <<>> ELSE Head(frames) \o concat(Tail(frames))

\* np.vectorize(...)(region) raises on a size-0 input (l.153);
\* rng.normal(size=n_months) raises on a negative size (l.166)
panel_setup_raises == n = 0 \/ cfg.n_months < 0

\* pd.concat raises on an empty list (l.300)
concat_raises == rows = <<>>

(***************************************************************************)
(* build_did_ready (l.304-319).                                            *)
(***************************************************************************)
cols == {"account_id", "calendar_month", "months_since_rollover", "treated",
         "post", "event_time", "treatment_any", "treatment_intensity",
         "invested_flag", "invest_amount", "active_flag", "eligible_flag"}

\* an alternative that fills invested_flag from the true outcome
build_did_ready_from_truth(df) ==
    [i \in 1..Len(df) |->
        [c \in cols |-> IF c = "invested_flag" THEN df[i].invested_true
                        ELSE df[i][c]]]

build_did_ready(df) == [i \in 1..Len(df) |-> [c \in cols |-> df[i][c]]]

(***************************************************************************)
(* main (l.322-346): one action per call.                                  *)
(***************************************************************************)
Seeds == 0..MaxSeed

PanelVarsUnset ==
    /\ panel_rng = None /\ m = 0 /\ invested_status = None
    /\ account_closed = None /\ first_exposure_month = None /\ rows = None

\* after cfg and rng are made (l.330-331)
InitMain(c) ==
    /\ cfg = c
    /\ pc = "build_accounts"
    /\ rng = default_rng(c.seed)
    /\ accounts = None /\ campaigns = None /\ maps = None
    /\ camp = CampInit /\ ci = 0
    /\ PanelVarsUnset
    /\ panel = None /\ did_ready = None /\ written = None
    /\ returned = {}
    /\ run = 1 /\ first_out = None

Init ==
    \E seed \in Seeds, na \in -1..MaxAccounts, nm \in -1..MaxMonths :
        InitMain(Config(seed, na, nm))

\* accounts = build_accounts(rng, cfg) (l.333)
BuildAccounts ==
    /\ pc = "build_accounts"
    /\ IF build_accounts_raises(cfg)
       THEN /\ pc' = "failed"
            /\ UNCHANGED <<accounts, rng, returned>>
       ELSE /\ accounts' = build_accounts(rng, cfg)
            /\ rng' = [rng EXCEPT !.pos = @ + 12 * cfg.n_accounts]
            /\ returned' = returned \cup {"build_accounts"}
            /\ pc' = "build_campaigns"
    /\ UNCHANGED <<cfg, campaigns, maps, camp, ci, panel_rng, m, invested_status,
                   account_closed, first_exposure_month, rows, panel, did_ready,
                   written, run, first_out>>

\* campaigns, maps = build_campaigns(cfg) (l.334)
BuildCampaigns ==
    /\ pc = "build_campaigns"
    /\ camp' = build_campaigns(cfg)
    /\ ci' = NIter
    /\ campaigns' = camp'.rows
    /\ maps' = MapsOf(camp')
    /\ returned' = returned \cup {"build_campaigns"}
    /\ pc' = "generate_panel"
    /\ UNCHANGED <<cfg, rng, accounts, panel_rng, m, invested_status,
                   account_closed, first_exposure_month, rows, panel, did_ready,
                   written, run, first_out>>

\* generate_panel up to the loop (l.138-176)
PanelSetup ==
    /\ pc = "generate_panel"
    /\ IF panel_setup_raises
       THEN /\ pc' = "failed"
            /\ UNCHANGED <<panel_rng, m, invested_status, account_closed,
                           first_exposure_month, rows>>
       ELSE /\ panel_rng' = [default_rng(PanelSeed(cfg)) EXCEPT !.pos = cfg.n_months]
            /\ invested_status' = [a \in 1..n |-> FALSE]
            /\ account_closed' = [a \in 1..n |-> FALSE]
            /\ first_exposure_month' = [a \in 1..n |-> -1]
            /\ rows' = <<>>
            /\ m' = 1
            /\ pc' = "month_loop"
    /\ UNCHANGED <<cfg, rng, accounts, campaigns, maps, camp, ci, panel,
                   did_ready, written, returned, run, first_out>>

\* one iteration of "for m in range(1, cfg.n_months + 1)" (l.178-298)
MonthStep ==
    /\ pc = "month_loop"
    /\ loop_continues
    /\ LET calc == [a \in 1..n |-> month_calc(a)] IN
          /\ first_exposure_month' = [a \in 1..n |-> calc[a].first_exposure_month]
          /\ invested_status' = [a \in 1..n |-> calc[a].invested_status]
          /\ account_closed' = [a \in 1..n |-> calc[a].account_closed]
          /\ rows' = Append(rows, [a \in 1..n |-> calc[a].row])
    /\ panel_rng' = [panel_rng EXCEPT !.pos = @ + CallsPerMonth * n]
    /\ m' = m + 1
    /\ UNCHANGED <<cfg, pc, rng, accounts, campaigns, maps, camp, ci, panel,
                   did_ready, written, returned, run, first_out>>

\* the end of the loop, pd.concat and the return to main (l.300-301, l.335)
PanelReturn ==
    /\ pc = "month_loop"
    /\ ~loop_continues
    /\ IF concat_raises
       THEN /\ pc' = "failed"
            /\ UNCHANGED <<panel, returned>>
       ELSE /\ panel' = concat(rows)
            /\ returned' = returned \cup {"generate_panel"}
            /\ pc' = "build_did_ready"
    /\ UNCHANGED <<cfg, rng, accounts, campaigns, maps, camp, ci, panel_rng, m,
                   invested_status, account_closed, first_exposure_month, rows,
                   did_ready, written, run, first_out>>

\* did_ready = build_did_ready(panel) (l.336)
BuildDidReady ==
    /\ pc = "build_did_ready"
    /\ did_ready' = build_did_ready(panel)
    /\ returned' = returned \cup {"build_did_ready"}
    /\ pc' = "write"
    /\ UNCHANGED <<cfg, rng, accounts, campaigns, maps, camp, ci, panel_rng, m,
                   invested_status, account_closed, first_exposure_month, rows,
                   panel, written, run, first_out>>

\* the four to_csv calls (l.338-346)
Write ==
    /\ pc = "write"
    /\ written' = [accounts |-> accounts, account_month |-> panel,
                   nudge_campaigns |-> campaigns, did_ready |-> did_ready]
    /\ pc' = "done"
    /\ UNCHANGED <<cfg, rng, accounts, campaigns, maps, camp, ci, panel_rng, m,
                   invested_status, account_closed, first_exposure_month, rows,
                   panel, did_ready, returned, run, first_out>>

Next ==
    \/ BuildAccounts
    \/ BuildCampaigns
    \/ PanelSetup
    \/ MonthStep
    \/ PanelReturn
    \/ BuildDidReady
    \/ Write

Spec == Init /\ [][Next]_vars

(***************************************************************************)
(* A second, independent run of the program with the same command line.    *)
(***************************************************************************)
Rerun ==
    /\ pc = "done"
    /\ run = 1
    /\ run' = 2
    /\ first_out' = written
    /\ cfg' = cfg
    /\ pc' = "build_accounts"
    /\ rng' = default_rng(cfg.seed)
    /\ accounts' = None /\ campaigns' = None /\ maps' = None
    /\ camp' = CampInit /\ ci' = 0
    /\ panel_rng' = None /\ m' = 0 /\ invested_status' = None
    /\ account_closed' = None /\ first_exposure_month' = None /\ rows' = None
    /\ panel' = None /\ did_ready' = None /\ written' = None
    /\ returned' = {}

NextRepro ==
    \/ Next
    \/ Rerun

SpecRepro == Init /\ [][NextRepro]_vars

(***************************************************************************)
(* build_campaigns alone, iteration by iteration, over longer horizons.    *)
(***************************************************************************)
InitCampaigns ==
    \E nm \in -1..MaxHorizon :
        /\ cfg = Config(0, 1, nm)
        /\ pc = "build_campaigns"
        /\ rng = [default_rng(0) EXCEPT !.pos = 12]
        /\ accounts = build_accounts(default_rng(0), Config(0, 1, nm))
        /\ campaigns = None /\ maps = None
        /\ camp = CampInit /\ ci = 0
        /\ PanelVarsUnset
        /\ panel = None /\ did_ready = None /\ written = None
        /\ returned = {"build_accounts"}
        /\ run = 1 /\ first_out = None

\* one iteration of the nested loops (l.105-126)
CampaignStep ==
    /\ pc = "build_campaigns"
    /\ ci < NIter
    /\ camp' = CampaignIter(camp, IterRegion(ci), IterChannel(ci), cfg)
    /\ ci' = ci + 1
    /\ UNCHANGED <<cfg, pc, rng, accounts, campaigns, maps, panel_rng, m,
                   invested_status, account_closed, first_exposure_month, rows,
                   panel, did_ready, written, returned, run, first_out>>

\* the return of build_campaigns (l.128-134)
CampaignsReturn ==
    /\ pc = "build_campaigns"
    /\ ci = NIter
    /\ campaigns' = camp.rows
    /\ maps' = MapsOf(camp)
    /\ returned' = returned \cup {"build_campaigns"}
    /\ pc' = "generate_panel"
    /\ UNCHANGED <<cfg, rng, accounts, camp, ci, panel_rng, m, invested_status,
                   account_closed, first_exposure_month, rows, panel, did_ready,
                   written, run, first_out>>

NextCampaigns ==
    \/ CampaignStep
    \/ CampaignsReturn

SpecCampaigns == InitCampaigns /\ [][NextCampaigns]_vars

(***************************************************************************)
(* Properties.                                                             *)
(***************************************************************************)
\* the account-month records emitted so far, in emission order
Emitted == concat(rows)

SameAccount(r, q) == r.account_id = q.account_id

Earlier(r, q) == SameAccount(r, q) /\ r.calendar_month < q.calendar_month

Exposed(r) == r.exposure_email + r.exposure_sms + r.exposure_inapp > 0

\* the first month <= mo in which a record of account id in E shows an
\* exposure on some channel, -1 when there is none
FirstExposed(E, id, mo) ==
    LET S == {E[i].calendar_month : i \in {k \in 1..Len(E) :
                 /\ E[k].account_id = id
                 /\ E[k].calendar_month <= mo
                 /\ Exposed(E[k])}}
    IN  IF S = {} THEN -1 ELSE CHOOSE k \in S : \A j \in S : k <= j

\* C1: for every account and months m < m', a record of month m with
\* invested_status = 1 is followed by invested_status = 1 in month m'.
C1_InvestedStatusMonotone ==
    LET E == Emitted IN
    \A i, j \in 1..Len(E) :
        Earlier(E[i], E[j]) /\ E[i].invested_status = 1
            => E[j].invested_status = 1

\* an account invested in one month and still carries the status in a later
\* month, in which its true outcome is 0
C1_Witness ==
    LET E == Emitted IN
    \E i, j \in 1..Len(E) :
        /\ Earlier(E[i], E[j])
        /\ E[i].invested_true = 1 /\ E[i].invested_status = 1
        /\ E[j].invested_true = 0 /\ E[j].invested_status = 1

\* C2 as stated: once invested_status is 1 in the record of month m,
\* eligible_flag is 0 in the record of month m itself and of every later month.
C2_NotEligibleFromSameMonth ==
    LET E == Emitted IN
    \A i, j \in 1..Len(E) :
        /\ SameAccount(E[i], E[j])
        /\ E[i].calendar_month <= E[j].calendar_month
        /\ E[i].invested_status = 1
        => E[j].eligible_flag = 0

\* C2 as amended: once invested_status is 1 in the record of month m,
\* eligible_flag is 0 in the record of every later month m' > m.
C2_NotEligibleAfterwards ==
    LET E == Emitted IN
    \A i, j \in 1..Len(E) :
        Earlier(E[i], E[j]) /\ E[i].invested_status = 1
            => E[j].eligible_flag = 0

\* an account invests in a month in which it is eligible, and in a later
\* month it is active, inside the [1,6] window, not closed, and not eligible
C2_Witness ==
    LET E == Emitted IN
    \E i, j \in 1..Len(E) :
        /\ Earlier(E[i], E[j])
        /\ E[i].invested_true = 1 /\ E[i].eligible_flag = 1
        /\ E[i].invested_status = 1
        /\ E[j].months_since_rollover \in 1..6
        /\ E[j].account_closed = 0
        /\ E[j].eligible_flag = 0

\* C3: for every account, a record with account_closed = 1 is followed by
\* account_closed = 1 in every record of a later month.
C3_AccountClosedMonotone ==
    LET E == Emitted IN
    \A i, j \in 1..Len(E) :
        Earlier(E[i], E[j]) /\ E[i].account_closed = 1
            => E[j].account_closed = 1

\* an account closed in one month has a record, still closed, two months on
C3_Witness ==
    LET E == Emitted IN
    \E i, j \in 1..Len(E) :
        /\ SameAccount(E[i], E[j])
        /\ E[i].calendar_month + 2 <= E[j].calendar_month
        /\ E[i].account_closed = 1
        /\ E[j].account_closed = 1

\* C4: in every record, first_exposure_month is the first month up to the
\* record's month in which the account was exposed on any channel (unset
\* before that), so it is set once and no later exposure overwrites it.
C4_FirstExposureSetOnce ==
    LET E == Emitted IN
    /\ \A i \in 1..Len(E) :
          E[i].first_exposure_month =
              FirstExposed(E, E[i].account_id, E[i].calendar_month)
    /\ \A i, j \in 1..Len(E) :
          Earlier(E[i], E[j]) /\ E[i].first_exposure_month >= 0
              => E[j].first_exposure_month = E[i].first_exposure_month

\* an account is exposed in one month and again in a later month, whose
\* record still names the earlier month
C4_Witness ==
    LET E == Emitted IN
    \E i, j \in 1..Len(E) :
        /\ Earlier(E[i], E[j])
        /\ E[i].treatment_any = 1
        /\ E[i].first_exposure_month = E[i].calendar_month
        /\ E[j].treatment_any = 1
        /\ E[j].first_exposure_month = E[i].calendar_month

\* C5: in every record of month m, event_time = m - first_exposure_month
\* (>= 0) when the account has been exposed in some month <= m, and the
\* missing sentinel when it has not.
C5_EventTime ==
    LET E == Emitted IN
    \A i \in 1..Len(E) :
        LET r == E[i]
            f == FirstExposed(E, r.account_id, r.calendar_month)
        IN  IF f >= 0
            THEN /\ r.event_time = r.calendar_month - f
                 /\ r.event_time = r.calendar_month - r.first_exposure_month
                 /\ r.event_time >= 0
            ELSE r.event_time = NaN

\* one account has a record before any exposure (event_time missing), the
\* record of its first exposure (event_time 0) and a later one (event_time > 0)
C5_Witness ==
    LET E == Emitted IN
    \E i, j, k \in 1..Len(E) :
        /\ Earlier(E[i], E[j]) /\ Earlier(E[j], E[k])
        /\ E[i].event_time = NaN
        /\ E[j].treatment_any = 1 /\ E[j].event_time = 0
        /\ E[k].event_time > 0

\* C6: in every record, invest_amount > 0 exactly when invested_true = 1;
\* a record whose invested_flag was flipped to 1 by label noise has amount 0.
C6_AmountIffTrueOutcome ==
    LET E == Emitted IN
    \A i \in 1..Len(E) :
        /\ (E[i].invest_amount > 0) <=> (E[i].invested_true = 1)
        /\ E[i].invested_true = 0 => E[i].invest_amount = 0

\* the records hold a noise-flipped flag with no true investment (amount 0)
\* and a true investment (amount > 0)
C6_Witness ==
    LET E == Emitted IN
    \E i, j \in 1..Len(E) :
        /\ E[i].invested_true = 0 /\ E[i].invested_flag = 1
        /\ E[i].invest_amount = 0
        /\ E[j].invested_true = 1 /\ E[j].invest_amount > 0

PanelReturned == "generate_panel" \in returned

\* the records of account id in the panel, in panel order
RecordsOf(id) == SelectSeq(panel, LAMBDA r : r.account_id = id)

\* C7: when generate_panel has returned, every account has n_months records
\* whose calendar_month runs 1..n_months in order, all records of a month
\* precede those of the next month, and the panel has n_accounts * n_months
\* rows.
C7_PanelShape ==
    PanelReturned =>
        /\ Len(panel) = cfg.n_accounts * cfg.n_months
        /\ \A id \in 1..cfg.n_accounts :
              LET mine == RecordsOf(id) IN
              /\ Len(mine) = cfg.n_months
              /\ \A k \in 1..cfg.n_months : mine[k].calendar_month = k
        /\ \A i, j \in 1..Len(panel) :
              i < j => panel[i].calendar_month <= panel[j].calendar_month

\* generate_panel has returned a panel of several accounts and several months
C7_Witness ==
    /\ PanelReturned
    /\ cfg.n_accounts >= 2 /\ cfg.n_months >= 3
    /\ Len(panel) = cfg.n_accounts * cfg.n_months

\* C8: the campaign table holds every (region, channel) pair exactly once,
\* 12 waves with ids 1..12 assigned region-major and channel-minor, and
\* every wave has end_month <= n_months.
C8_CampaignTable ==
    /\ \A i \in 1..Len(camp.rows) : camp.rows[i].end_month <= cfg.n_months
    /\ campaigns # None =>
          /\ Len(campaigns) = 12
          /\ \A g \in 1..Len(regions), h \in 1..Len(channels) :
                /\ Cardinality({i \in 1..Len(campaigns) :
                        /\ campaigns[i].region = regions[g]
                        /\ campaigns[i].channel = channels[h]}) = 1
                /\ campaigns[(g - 1) * Len(channels) + h].region = regions[g]
                /\ campaigns[(g - 1) * Len(channels) + h].channel = channels[h]
          /\ \A i \in 1..Len(campaigns) :
                /\ campaigns[i].nudge_wave_id = i
                /\ campaigns[i].end_month <= cfg.n_months

\* a finished table in which one wave runs its full length and another is
\* cut at the horizon
C8_Witness ==
    /\ campaigns # None
    /\ \E i, j \in 1..Len(campaigns) :
          /\ campaigns[i].end_month = campaigns[i].start_month + 12
          /\ campaigns[j].end_month = cfg.n_months
          /\ campaigns[j].end_month < campaigns[j].start_month + 12

InvalidConfig == cfg.n_accounts <= 0 \/ cfg.n_months <= 0

\* C9: with a non-positive account or month count the run fails before any
\* generation: no generation function runs to its end and nothing is written.
C9_FailsBeforeGeneration ==
    InvalidConfig => returned = {} /\ written = None

AtEndOfPrevious(E, id, mo, col) ==
    \E k \in 1..Len(E) :
        /\ E[k].account_id = id
        /\ E[k].calendar_month = mo - 1
        /\ E[k][col] = 1

NudgeCol(ch) ==
    CASE ch = "email" -> "nudge_email"
      [] ch = "sms"   -> "nudge_sms"
      [] ch = "inapp" -> "nudge_inapp"

\* the row of the campaign table for channel ch and region reg
WaveOf(ch, reg) ==
    CHOOSE w \in {campaigns[i] : i \in 1..Len(campaigns)} :
        w.channel = ch /\ w.region = reg

\* account id can be contacted on channel ch (always on inapp)
ContactableOn(ch, id) ==
    CASE ch = "email" -> accounts[id].contactable_email = 1
      [] ch = "sms"   -> accounts[id].contactable_sms = 1
      [] ch = "inapp" -> TRUE

ExposureCol(ch) ==
    CASE ch = "email" -> "exposure_email"
      [] ch = "sms"   -> "exposure_sms"
      [] ch = "inapp" -> "exposure_inapp"

\* rng.random(n)[id] of the call-th call of month mo: the generator has
\* made cfg.n_months draws (l.166) and CallsPerMonth * n per earlier month
DrawOf(mo, call, id) ==
    random(Variate([default_rng(PanelSeed(cfg)) EXCEPT
                       !.pos = cfg.n_months + (mo - 1) * CallsPerMonth * n],
                   call, n, id))

\* the open/view draw of channel ch succeeded for account id in month mo
Opened(ch, mo, id) == DrawOf(mo, 3 + ChannelIndex(ch), id) < open_prob(ch, id)

\* the contamination draw of channel ch succeeded for account id in month mo
Contaminated(ch, mo, id) == DrawOf(mo, 6 + ChannelIndex(ch), id) < contam_rate

\* C13: for each channel, exposure_<channel> = 1 only if the account was
\* assigned on the channel and its open draw succeeded, or was eligible, not
\* assigned on the channel, and its contamination draw succeeded; so any
\* exposure (treatment_any = 1, treatment_intensity in 1..3, the count of
\* exposed channels) implies eligible_flag = 1, and an ineligible account
\* has treatment_intensity = 0.
C13_ExposureRequires ==
    LET E == Emitted IN
    \A i \in 1..Len(E) :
        LET r == E[i] IN
        /\ \A h \in 1..Len(channels) :
              LET ch == channels[h] IN
              r[ExposureCol(ch)] = 1 =>
                  \/ /\ r[NudgeCol(ch)] = 1
                     /\ Opened(ch, r.calendar_month, r.account_id)
                  \/ /\ r.eligible_flag = 1
                     /\ r[NudgeCol(ch)] = 0
                     /\ Contaminated(ch, r.calendar_month, r.account_id)
        /\ r.treatment_intensity =
              r.exposure_email + r.exposure_sms + r.exposure_inapp
        /\ r.treatment_any = 1 <=> r.treatment_intensity \in 1..3
        /\ r.treatment_any = 1 => r.eligible_flag = 1
        /\ r.eligible_flag = 0 => r.treatment_intensity = 0

\* record r shows an exposure on a channel the account was assigned on
ExposedAsAssigned(r) ==
    \E h \in 1..Len(channels) :
        r[NudgeCol(channels[h])] = 1 /\ r[ExposureCol(channels[h])] = 1

\* record r shows an exposure on a channel the account was not assigned on
ExposedByContamination(r) ==
    \E h \in 1..Len(channels) :
        r[NudgeCol(channels[h])] = 0 /\ r[ExposureCol(channels[h])] = 1

\* the records show an exposure after an assignment, an exposure by
\* contamination, a record exposed on all three channels, and an ineligible
\* account whose contamination draw succeeded and that stayed unexposed
C13_Witness ==
    LET E == Emitted IN
    \E i, j, k, l \in 1..Len(E) :
        /\ ExposedAsAssigned(E[i])
        /\ ExposedByContamination(E[j])
        /\ E[k].treatment_intensity = 3
        /\ E[l].eligible_flag = 0 /\ E[l].treatment_intensity = 0
        /\ \E h \in 1..Len(channels) :
              Contaminated(channels[h], E[l].calendar_month, E[l].account_id)

\* the investment draw of month mo fell below the logistic value for account
\* id, so the account invests unless its probability was zeroed
InvestDrawLow(mo, id) == DrawOf(mo, 9, id) < logistic_value

\* C14: invested_true = 1 only in a record of an account that is active in
\* that month (m >= rollover_month) and was neither invested nor closed at
\* the end of month m - 1; an inactive, already invested or closed account
\* has invested_true = 0 and invest_amount = 0 whatever the draws.
C14_OutcomeRequires ==
    LET E == Emitted IN
    \A i \in 1..Len(E) :
        LET r    == E[i]
            live == /\ r.calendar_month >= accounts[r.account_id].rollover_month
                    /\ ~AtEndOfPrevious(E, r.account_id, r.calendar_month,
                                        "invested_status")
                    /\ ~AtEndOfPrevious(E, r.account_id, r.calendar_month,
                                        "account_closed")
        IN  /\ r.invested_true = 1 => live /\ r.active_flag = 1
            /\ ~live => r.invested_true = 0 /\ r.invest_amount = 0

\* the investment draw is low in a record of an account not yet active, in
\* one of an account that invested earlier, and in one of an account that
\* was closed earlier without investing; none of them invests
C14_Witness ==
    LET E == Emitted IN
    \E i, j, k \in 1..Len(E) :
        /\ InvestDrawLow(E[i].calendar_month, E[i].account_id)
        /\ E[i].active_flag = 0 /\ E[i].invested_true = 0
        /\ InvestDrawLow(E[j].calendar_month, E[j].account_id)
        /\ AtEndOfPrevious(E, E[j].account_id, E[j].calendar_month,
                           "invested_status")
        /\ E[j].invested_true = 0 /\ E[j].invest_amount = 0
        /\ InvestDrawLow(E[k].calendar_month, E[k].account_id)
        /\ AtEndOfPrevious(E, E[k].account_id, E[k].calendar_month,
                           "account_closed")
        /\ ~AtEndOfPrevious(E, E[k].account_id, E[k].calendar_month,
                            "invested_status")
        /\ E[k].invested_true = 0 /\ E[k].invest_amount = 0

\* the label-noise draw of month mo fired for account id (l.234)
NoiseFired(mo, id) == DrawOf(mo, 10, id) < label_noise_rate

\* record q is the record of r's account in the month after r's
NextMonthOf(r, q) ==
    SameAccount(r, q) /\ q.calendar_month = r.calendar_month + 1

\* C15: invested_flag differs from invested_true exactly in the records
\* whose noise draw fired; invested_status after month m is the OR of
\* invested_true (never of invested_flag) over months 1..m; and a record
\* with a noise-flipped invested_flag = 1 and invested_true = 0 has
\* invest_amount = 0 and leaves the account's status and its eligibility in
\* the next month as they would be without the flip.
C15_NoiseOnlyInFlag ==
    LET E == Emitted IN
    /\ \A i \in 1..Len(E) :
          LET r == E[i] IN
          /\ r.invested_flag # r.invested_true
                <=> NoiseFired(r.calendar_month, r.account_id)
          /\ r.invested_status = 1 <=>
                \E k \in 1..Len(E) :
                    /\ SameAccount(E[k], r)
                    /\ E[k].calendar_month <= r.calendar_month
                    /\ E[k].invested_true = 1
          /\ r.invested_flag = 1 /\ r.invested_true = 0
                => r.invest_amount = 0
    /\ \A i, j \in 1..Len(E) :
          /\ NextMonthOf(E[i], E[j])
          /\ E[i].invested_flag = 1 /\ E[i].invested_true = 0
          /\ E[i].invested_status = 0 /\ E[i].account_closed = 0
          /\ E[j].months_since_rollover \in 1..6
          => E[j].eligible_flag = 1

\* a record with invested_flag flipped to 1 leaves the status at 0 and the
\* account eligible in the next month, in which it invests; and a record
\* with the flag flipped to 0 over a true investment sets the status
C15_Witness ==
    LET E == Emitted IN
    \E i, j, k \in 1..Len(E) :
        /\ NextMonthOf(E[i], E[j])
        /\ E[i].invested_flag = 1 /\ E[i].invested_true = 0
        /\ E[i].invested_status = 0
        /\ E[j].eligible_flag = 1 /\ E[j].invested_true = 1
        /\ E[k].invested_flag = 0 /\ E[k].invested_true = 1
        /\ E[k].invested_status = 1

\* the twelve columns of the DiD-ready table
DidReadyColumns ==
    {"account_id", "calendar_month", "months_since_rollover", "treated",
     "post", "event_time", "treatment_any", "treatment_intensity",
     "invested_flag", "invest_amount", "active_flag", "eligible_flag"}

DidReadyBuilt == "build_did_ready" \in returned

\* C16: the DiD-ready table has one row per panel row, in the same order,
\* with exactly the twelve columns, each equal to the same-named column of
\* the panel row (invested_flag is the observed flag of the panel), and the
\* panel is still the concatenation of the emitted months.
C16_PureProjection ==
    DidReadyBuilt =>
        /\ Len(did_ready) = Len(panel)
        /\ \A i \in 1..Len(panel) :
              /\ DOMAIN did_ready[i] = DidReadyColumns
              /\ \A c \in DidReadyColumns : did_ready[i][c] = panel[i][c]
        /\ panel = Emitted
        /\ Len(panel) = cfg.n_accounts * cfg.n_months

\* the table is built from a panel of several rows, one of which has an
\* observed flag that differs from the true outcome
C16_Witness ==
    /\ DidReadyBuilt
    /\ Len(did_ready) >= 4
    /\ \E i \in 1..Len(panel) :
          /\ panel[i].invested_flag # panel[i].invested_true
          /\ did_ready[i].invested_flag = panel[i].invested_flag

\* C17: for every account, invested_true = 1 in at most one month, so
\* invest_amount > 0 in at most one record, and invested_status is 1 for the
\* first time in exactly that month's record.
C17_InvestsAtMostOnce ==
    LET E == Emitted IN
    /\ \A i, j \in 1..Len(E) :
          /\ SameAccount(E[i], E[j]) /\ E[i].invested_true = 1
                /\ E[j].invested_true = 1
             => E[i].calendar_month = E[j].calendar_month
          /\ SameAccount(E[i], E[j]) /\ E[i].invest_amount > 0
                /\ E[j].invest_amount > 0
             => E[i].calendar_month = E[j].calendar_month
    /\ \A i \in 1..Len(E) :
          E[i].invested_true = 1 <=>
              /\ E[i].invested_status = 1
              /\ ~AtEndOfPrevious(E, E[i].account_id, E[i].calendar_month,
                                  "invested_status")

\* an account has status 0 in one month, invests in the next, and in a
\* later month its investment draw is low again without a second investment
C17_Witness ==
    LET E == Emitted IN
    \E i, j, k \in 1..Len(E) :
        /\ NextMonthOf(E[i], E[j]) /\ Earlier(E[j], E[k])
        /\ E[i].invested_status = 0
        /\ E[j].invested_true = 1 /\ E[j].invest_amount > 0
        /\ E[j].invested_status = 1
        /\ InvestDrawLow(E[k].calendar_month, E[k].account_id)
        /\ E[k].invested_true = 0 /\ E[k].invest_amount = 0
        /\ E[k].invested_status = 1

\* C18: once a record of an account has account_closed = 1, every record of
\* a later month has eligible_flag = 0, no assignment and no exposure on any
\* channel, invested_true = 0 and invest_amount = 0, and the invested_status
\* and first_exposure_month of the month of closure.
C18_ClosedIsFrozen ==
    LET E == Emitted IN
    \A i, j \in 1..Len(E) :
        Earlier(E[i], E[j]) /\ E[i].account_closed = 1 =>
            /\ E[j].eligible_flag = 0
            /\ E[j].nudge_email = 0 /\ E[j].nudge_sms = 0
            /\ E[j].nudge_inapp = 0
            /\ E[j].exposure_email = 0 /\ E[j].exposure_sms = 0
            /\ E[j].exposure_inapp = 0
            /\ E[j].treatment_any = 0 /\ E[j].treatment_intensity = 0
            /\ E[j].invested_true = 0 /\ E[j].invest_amount = 0
            /\ E[j].invested_status = E[i].invested_status
            /\ E[j].first_exposure_month = E[i].first_exposure_month

\* the assignment draw of channel ch fell below 50 permille, the least
\* value of p_assign, for account id in month mo
AssignDrawLow(ch, mo, id) == DrawOf(mo, ChannelIndex(ch), id) < 50

\* in month mo a wave is active for account id on a channel the account can
\* be contacted on, and the assignment draw of that channel is low
WouldBeAssigned(mo, id) ==
    \E h \in 1..Len(channels) :
        LET ch == channels[h]
            w  == WaveOf(ch, accounts[id].region)
        IN  /\ w.start_month <= mo /\ mo <= w.end_month
            /\ ContactableOn(ch, id)
            /\ AssignDrawLow(ch, mo, id)

\* an account exposed before it closed, never invested, has a later record
\* inside the window in which a wave is active and the assignment, the
\* contamination and the investment draws are all low, yet nothing happens
C18_Witness ==
    LET E == Emitted IN
    \E i, j \in 1..Len(E) :
        /\ Earlier(E[i], E[j])
        /\ E[i].account_closed = 1 /\ E[i].invested_status = 0
        /\ E[i].first_exposure_month >= 0
        /\ E[j].months_since_rollover \in 1..6
        /\ WouldBeAssigned(E[j].calendar_month, E[j].account_id)
        /\ InvestDrawLow(E[j].calendar_month, E[j].account_id)
        /\ \E h \in 1..Len(channels) :
              Contaminated(channels[h], E[j].calendar_month, E[j].account_id)
        /\ E[j].treatment_any = 0 /\ E[j].invested_true = 0
        /\ E[j].first_exposure_month = E[i].first_exposure_month

\* C19: in every record treated = post, both 1 exactly when
\* first_exposure_month is set, which is exactly when the account was
\* exposed in some month up to the record's; and first_exposure_month never
\* exceeds the record's month.
C19_TreatedEqualsPost ==
    LET E == Emitted IN
    \A i \in 1..Len(E) :
        LET r == E[i] IN
        /\ r.treated = r.post
        /\ r.treated \in {0, 1}
        /\ r.treated = 1 <=> r.first_exposure_month >= 0
        /\ r.treated = 1 <=>
              FirstExposed(E, r.account_id, r.calendar_month) >= 0
        /\ r.first_exposure_month <= r.calendar_month

\* one account has a record before its first exposure (treated = post = 0),
\* the record of the first exposure and a later one (treated = post = 1)
C19_Witness ==
    LET E == Emitted IN
    \E i, j, k \in 1..Len(E) :
        /\ Earlier(E[i], E[j]) /\ Earlier(E[j], E[k])
        /\ E[i].treated = 0 /\ E[i].post = 0
        /\ E[j].first_exposure_month = E[j].calendar_month
        /\ E[j].treated = 1 /\ E[j].post = 1
        /\ E[k].treatment_any = 0
        /\ E[k].treated = 1 /\ E[k].post = 1

\* C20 as stated: for every n_months >= 1, every wave has
\* 1 <= start_month <= end_month <= n_months.
C20_WellFormedWindow ==
    cfg.n_months >= 1 =>
        \A i \in 1..Len(camp.rows) :
            /\ 1 <= camp.rows[i].start_month
            /\ camp.rows[i].start_month <= camp.rows[i].end_month
            /\ camp.rows[i].end_month <= cfg.n_months

\* C20 as amended: for every n_months, every wave has start_month = region
\* base offset + channel offset >= 1 and end_month = min(start_month + 12,
\* n_months) <= n_months; start_month <= end_month holds exactly for the
\* waves with start_month <= n_months, which is every wave once
\* n_months >= 15, and a wave that starts past the horizon has
\* end_month = n_months < start_month.
C20_WindowWithinHorizon ==
    \A i \in 1..Len(camp.rows) :
        LET w == camp.rows[i] IN
        /\ w.start_month = region_start[w.region] + channel_offset[w.channel]
        /\ 1 <= w.start_month
        /\ w.end_month = Min(w.start_month + 12, cfg.n_months)
        /\ w.end_month <= cfg.n_months
        /\ w.start_month <= w.end_month <=> w.start_month <= cfg.n_months
        /\ cfg.n_months >= 15 => w.start_month <= w.end_month
        /\ w.start_month > cfg.n_months => w.end_month = cfg.n_months

\* a finished table for a horizon of at least one month in which one wave
\* has a window inside the horizon and another starts past the horizon
C20_Witness ==
    /\ campaigns # None
    /\ cfg.n_months >= 1
    /\ \E i, j \in 1..Len(campaigns) :
          /\ campaigns[i].start_month <= campaigns[i].end_month
          /\ campaigns[i].end_month <= cfg.n_months
          /\ campaigns[j].start_month > cfg.n_months
          /\ campaigns[j].end_month = cfg.n_months

====
